---- MODULE Spec2Model ----
(***************************************************************************)
(* Model of the Converter (megatron_data_converter.py) and of the Reader   *)
(* (megatron_dataset_reader.py).  One Converter run turns the "text"       *)
(* column of a record file into a binary-indexed dataset on disk; a Reader *)
(* run afterwards opens that dataset, fetches one sequence and decodes it. *)
(* The tokenizer and the indexed-dataset builder/reader are external       *)
(* libraries: they are modelled by what their interface does.              *)
(***************************************************************************)
EXTENDS Integers, Sequences, FiniteSets

\* ------------------------------------------------------------------ bounds
\* Longest record file whose records are drawn freely.
MaxRecords == 3
\* A long record file holds MAX_ERRORS - 1 .. MAX_ERRORS + 1 + MaxExtra
\* records on which the tokenizer raises.
MaxExtra == 1
\* The Reader's --index ranges over -1 .. MaxIndex.
MaxIndex == 5

\* --------------------------------------------------------------- constants
MAX_ERRORS == 100

\* The modules the Converter imports from the standard library.
ConverterImports == {"os", "sys", "time", "random", "logging", "argparse", "pathlib", "typing"}

\* ------------------------------------------------------------------- texts
\* The value of a record's "text" column: null, a non-string, or a string
\* (a sequence of characters).
NoneText == [kind |-> "none", chars |-> <<>>]
IntText == [kind |-> "int", chars |-> <<>>]
Str(s) == [kind |-> "str", chars |-> s]

\* " " is whitespace, "a" is an ordinary character, "0" is a character
\* the tokenizer's normalizer drops, "x" is a character the tokenizer raises on.
SampleStrings ==
    { <<>>, <<" ">>, <<"a">>, <<" ", "a">>, <<"a", "0">>, <<"0">>, <<"x">> }

Texts == {NoneText, IntText} \cup { Str(s) : s \in SampleStrings }

BadText == Str(<<"x">>)

SeqsUpTo(S, n) == UNION { [1..k -> S] : k \in 0..n }

Repeat(x, n) == [k \in 1..n |-> x]

\* Record files: every file of at most MaxRecords records, and long files made
\* of a run of failing records between at most one record on either side (an
\* accepted one, a blank one or another failing one).
Edges == { <<>>, <<Str(<<"a">>)>>, <<Str(<<" ">>)>>, <<BadText>> }

ShortDatasets == SeqsUpTo(Texts, MaxRecords)

LongDatasets ==
    { pre \o Repeat(BadText, n) \o suf :
        pre \in Edges, suf \in Edges,
        n \in (MAX_ERRORS - 1)..(MAX_ERRORS + 1 + MaxExtra) }

Datasets == ShortDatasets \cup LongDatasets

\* ----------------------------------------------------------- pure helpers
IsWhitespace(c) == c = " "

RECURSIVE LStrip(_)
LStrip(s) == IF s # <<>> /\ IsWhitespace(Head(s)) THEN LStrip(Tail(s)) ELSE s

RECURSIVE RStrip(_)
RStrip(s) ==
    IF s # <<>> /\ IsWhitespace(s[Len(s)]) THEN RStrip(SubSeq(s, 1, Len(s) - 1)) ELSE s

\* str.strip()
Strip(s) == RStrip(LStrip(s))

\* The tokenizer: normalization drops "0"; every other character is one token.
Dropped(c) == c = "0"
Keeps(c) == ~Dropped(c)
Normalize(s) == SelectSeq(s, Keeps)

TokenOf(c) == CASE c = " " -> 10 [] c = "a" -> 11 [] OTHER -> 12
CharOf(t) == CASE t = 10 -> " " [] t = 11 -> "a" [] OTHER -> "?"

TokenizerRaises(s) == \E k \in 1..Len(s) : s[k] = "x"

Encode(s) == [k \in 1..Len(Normalize(s)) |-> TokenOf(Normalize(s)[k])]

\* tokenizer.decode(sequence)
Decode(ids) == [k \in 1..Len(ids) |-> CharOf(ids[k])]

RECURSIVE SumLen(_)
SumLen(ss) == IF ss = <<>> THEN 0 ELSE Len(Head(ss)) + SumLen(Tail(ss))

RECURSIVE Count(_, _)
Count(s, x) ==
    IF s = <<>> THEN 0 ELSE (IF Head(s) = x THEN 1 ELSE 0) + Count(Tail(s), x)

\* ------------------------------------------------- the Converter's decisions
\* A skip test that forgets to strip the text.
SkippedByTextNoStrip(text) == text.kind # "str" \/ text.chars = <<>>

\* line 132: not isinstance(text, str) or not text.strip()
SkippedByText(text) == text.kind # "str" \/ Strip(text.chars) = <<>>

\* line 136: tokenizer(text, return_tensors="pt")["input_ids"][0]
TokenIds(text) == Encode(text.chars)

\* lines 137-139: the record tokenized to nothing
SkippedByTokens(text) == Len(TokenIds(text)) = 0

\* A token count that counts records, not tokens.
AddTokensPerRecord(total, ids) == total + 1

\* line 142
AddTokens(total, ids) == total + Len(ids)

\* A ceiling test that stops on the 100th error.
CeilingReached(errors) == errors >= MAX_ERRORS

\* line 170
CeilingExceeded(errors) == errors > MAX_ERRORS

\* A finalization block that ends the document but never writes the index.
FinishCallsNoFinalize(cs) == Append(cs, "end_document")

\* lines 176-177: the calls the finalization block makes on the builder when
\* neither raises
FinishCalls(cs) == Append(Append(cs, "end_document"), "finalize")

\* A fallback whose own failure swallows the original error.
ReraisedUnlessFallbackFailed(outcome) == IF outcome = "failed" THEN "none" ELSE "original"

\* line 106: the error load_tokenizer raises after the fallback ended as
\* `outcome` ("shown", "missing" or "failed").
Reraised(outcome) == "original"

\* A failure path that returns the initial token count.
FinalizeReturnZeroOnFailure(total, errors, failed) ==
    IF failed THEN <<0, errors>> ELSE <<total, errors>>

\* lines 178 and 181: what process_dataset returns from the finalization block
FinalizeReturn(total, errors, failed) == <<total, errors>>

\* A one-based lookup.
ReaderLookupOffByOne(idx) == idx + 1

\* line 61: dataset[args.index]
ReaderLookup(idx) == idx

\* A fetch failure that is logged but does not end the run.
ReaderNextIgnoringFetchFailure(stage, ok) ==
    CASE stage = "open" -> IF ok THEN "fetch" ELSE "done"
      [] stage = "fetch" -> "tokenizer"
      [] stage = "tokenizer" -> IF ok THEN "decode" ELSE "done"
      [] OTHER -> "done"

\* lines 52-85: the stage the Reader goes to after `stage` ended ok or not
ReaderNext(stage, ok) ==
    IF ~ok THEN "done"
    ELSE CASE stage = "open" -> "fetch"
           [] stage = "fetch" -> "tokenizer"
           [] stage = "tokenizer" -> "decode"
           [] OTHER -> "done"

\* IndexedDataset.__getitem__ on n sequences: Python indexing, negative
\* positions count from the end.
InRange(n, idx) == -n <= idx /\ idx < n
Position(n, idx) == IF idx < 0 THEN n + idx + 1 ELSE idx + 1

\* line 229: the number of samples main reports as processed
ProcessedCount(n, errors) == n - errors

\* lines 238-240: the top-level handler logs the error, then formats the
\* traceback with the traceback module.
HandlerOutcome == IF "traceback" \in ConverterImports THEN "returned" ELSE "raised"

\* ---------------------------------------------------------------- the state
VARIABLES
    dataset,        \* the "text" column of the record file
    pc,             \* the Converter's position in main
    mainOutcome,    \* "running", "returned" or "raised"
    tokenizer,      \* "unloaded", "loaded" or "failed"
    fallback,       \* how the diagnostic fallback ended ("none" before it ran)
    raised,         \* the error load_tokenizer raised ("none" if none)
    builderCreated, \* IndexedDatasetBuilder was constructed
    calls,          \* the calls made on the builder, in order
    items,          \* the sequences written to the .bin file
    idxWritten,     \* the .idx file has been written
    i,              \* number of records the loop has visited
    total_tokens,
    error_count,
    finError,       \* "none", "end_document" or "finalize"
    ret,            \* <<>> or <<(total_tokens, error_count)>> returned
    reported,       \* <<>> or <<processed count>> reported by main
    errlog,         \* the errors the Converter logged, in order
    rpc,            \* the Reader's position in main
    rindex,         \* the Reader's --index
    rstages,        \* the stages the Reader attempted, in order
    rerrors,        \* the stages whose failure the Reader logged
    sequence,       \* <<>> or <<the sequence fetched>>
    decoded,        \* <<>> or <<the decoded text>>
    routcome        \* "running" or "returned"

cvars == <<dataset, pc, mainOutcome, tokenizer, fallback, raised, builderCreated,
           calls, items, idxWritten, i, total_tokens, error_count, finError, ret,
           reported, errlog>>
rvars == <<rpc, rindex, rstages, rerrors, sequence, decoded, routcome>>
vars == <<cvars, rvars>>

Init ==
    /\ dataset \in Datasets
    /\ pc = "get_file_paths"
    /\ mainOutcome = "running"
    /\ tokenizer = "unloaded"
    /\ fallback = "none"
    /\ raised = "none"
    /\ builderCreated = FALSE
    /\ calls = <<>>
    /\ items = <<>>
    /\ idxWritten = FALSE
    /\ i = 0
    /\ total_tokens = 0
    /\ error_count = 0
    /\ finError = "none"
    /\ ret = <<>>
    /\ reported = <<>>
    /\ errlog = <<>>
    /\ rpc = "open"
    /\ rindex = 0
    /\ rstages = <<>>
    /\ rerrors = <<>>
    /\ sequence = <<>>
    /\ decoded = <<>>
    /\ routcome = "running"

\* ------------------------------------------------------- Converter: main
Return == /\ pc' = "done" /\ mainOutcome' = "returned"

\* lines 191, 77: the output directory is created
GetFilePathsOk ==
    /\ pc = "get_file_paths"
    /\ pc' = "check_input"
    /\ UNCHANGED <<dataset, mainOutcome, tokenizer, fallback, raised, builderCreated,
                   calls, items, idxWritten, i, total_tokens, error_count, finError,
                   ret, reported, errlog, rvars>>

\* lines 191, 77: mkdir raises; the error reaches the top-level handler
GetFilePathsFail ==
    /\ pc = "get_file_paths"
    /\ pc' = "handler"
    /\ UNCHANGED <<dataset, mainOutcome, tokenizer, fallback, raised, builderCreated,
                   calls, items, idxWritten, i, total_tokens, error_count, finError,
                   ret, reported, errlog, rvars>>

\* lines 197-199: the input file does not exist
InputMissing ==
    /\ pc = "check_input"
    /\ Return
    /\ UNCHANGED <<dataset, tokenizer, fallback, raised, builderCreated,
                   calls, items, idxWritten, i, total_tokens, error_count, finError,
                   ret, reported, rvars>>
    /\ errlog' = Append(errlog, "input_missing")

\* lines 202-206: Dataset.from_json raises
LoadDatasetFail ==
    /\ pc = "check_input"
    /\ Return
    /\ UNCHANGED <<dataset, tokenizer, fallback, raised, builderCreated,
                   calls, items, idxWritten, i, total_tokens, error_count, finError,
                   ret, reported, rvars>>
    /\ errlog' = Append(errlog, "load_dataset")

\* lines 208-210: no record of the file has a "text" field
TextFieldMissing ==
    /\ pc = "check_input"
    /\ \A k \in 1..Len(dataset) : dataset[k] = NoneText
    /\ Return
    /\ UNCHANGED <<dataset, tokenizer, fallback, raised, builderCreated,
                   calls, items, idxWritten, i, total_tokens, error_count, finError,
                   ret, reported, rvars>>
    /\ errlog' = Append(errlog, "no_text_field")

\* lines 197-214: the file exists, loads, and has a "text" column
LoadDatasetOk ==
    /\ pc = "check_input"
    /\ pc' = "load_tokenizer"
    /\ UNCHANGED <<dataset, mainOutcome, tokenizer, fallback, raised, builderCreated,
                   calls, items, idxWritten, i, total_tokens, error_count, finError,
                   ret, reported, errlog, rvars>>

\* lines 217-218, 82-88
LoadTokenizerOk ==
    /\ pc = "load_tokenizer"
    /\ tokenizer' = "loaded"
    /\ pc' = "create_builder"
    /\ UNCHANGED <<dataset, mainOutcome, fallback, raised, builderCreated,
                   calls, items, idxWritten, i, total_tokens, error_count, finError,
                   ret, reported, errlog, rvars>>

\* lines 89-106, 219-221: from_pretrained raises; the fallback shows the
\* vocabulary ("shown"), finds no tokenizer.model ("missing") or fails itself
\* ("failed"); the error raised then is caught by main, which returns.
LoadTokenizerFail ==
    /\ pc = "load_tokenizer"
    /\ tokenizer' = "failed"
    /\ \E outcome \in {"shown", "missing", "failed"} :
        /\ fallback' = outcome
        /\ raised' = Reraised(outcome)
    /\ IF raised' # "none"
         THEN Return /\ errlog' = Append(errlog, "load_tokenizer")
         ELSE pc' = "create_builder" /\ UNCHANGED <<mainOutcome, errlog>>
    /\ UNCHANGED <<dataset, builderCreated,
                   calls, items, idxWritten, i, total_tokens, error_count, finError,
                   ret, reported, rvars>>

\* --------------------------------------------- Converter: process_dataset
\* lines 120-122
CreateBuilderOk ==
    /\ pc = "create_builder"
    /\ builderCreated' = TRUE
    /\ pc' = "loop"
    /\ UNCHANGED <<dataset, mainOutcome, tokenizer, fallback, raised,
                   calls, items, idxWritten, i, total_tokens, error_count, finError,
                   ret, reported, errlog, rvars>>

\* lines 123-125
CreateBuilderFail ==
    /\ pc = "create_builder"
    /\ ret' = << <<total_tokens, error_count>> >>
    /\ pc' = "report"
    /\ UNCHANGED <<dataset, mainOutcome, tokenizer, fallback, raised, builderCreated,
                   calls, items, idxWritten, i, total_tokens, error_count, finError,
                   reported, rvars>>
    /\ errlog' = Append(errlog, "create_builder")

InLoop == pc = "loop" /\ i < Len(dataset)
Example == dataset[i + 1]

\* lines 132-134
SkipByText ==
    /\ InLoop
    /\ SkippedByText(Example)
    /\ i' = i + 1
    /\ UNCHANGED <<dataset, pc, mainOutcome, tokenizer, fallback, raised, builderCreated,
                   calls, items, idxWritten, total_tokens, error_count, finError,
                   ret, reported, errlog, rvars>>

\* lines 136-139
SkipByTokens ==
    /\ InLoop
    /\ ~SkippedByText(Example)
    /\ ~TokenizerRaises(Example.chars)
    /\ SkippedByTokens(Example)
    /\ i' = i + 1
    /\ UNCHANGED <<dataset, pc, mainOutcome, tokenizer, fallback, raised, builderCreated,
                   calls, items, idxWritten, total_tokens, error_count, finError,
                   ret, reported, errlog, rvars>>

\* lines 136-165
AcceptRecord ==
    /\ InLoop
    /\ ~SkippedByText(Example)
    /\ ~TokenizerRaises(Example.chars)
    /\ ~SkippedByTokens(Example)
    /\ items' = Append(items, TokenIds(Example))
    /\ calls' = Append(calls, "add_item")
    /\ total_tokens' = AddTokens(total_tokens, TokenIds(Example))
    /\ i' = i + 1
    /\ UNCHANGED <<dataset, pc, mainOutcome, tokenizer, fallback, raised, builderCreated,
                   idxWritten, error_count, finError, ret, reported, errlog, rvars>>

\* lines 136, 167-172: the tokenizer raises; the error is counted and the loop
\* is left once the count exceeds the ceiling
RecordError ==
    /\ InLoop
    /\ ~SkippedByText(Example)
    /\ TokenizerRaises(Example.chars)
    /\ error_count' = error_count + 1
    /\ i' = i + 1
    /\ pc' = IF CeilingExceeded(error_count') THEN "finalize" ELSE "loop"
    /\ UNCHANGED <<dataset, mainOutcome, tokenizer, fallback, raised, builderCreated,
                   calls, items, idxWritten, total_tokens, finError,
                   ret, reported, errlog, rvars>>

\* line 130: the input is exhausted
LoopEnd ==
    /\ pc = "loop"
    /\ i = Len(dataset)
    /\ pc' = "finalize"
    /\ UNCHANGED <<dataset, mainOutcome, tokenizer, fallback, raised, builderCreated,
                   calls, items, idxWritten, i, total_tokens, error_count, finError,
                   ret, reported, errlog, rvars>>

\* lines 128-130: advancing the iterator raises, outside the per-record guard;
\* the error leaves process_dataset and reaches main's top-level handler
IterationRaises ==
    /\ InLoop
    /\ pc' = "handler"
    /\ UNCHANGED <<dataset, mainOutcome, tokenizer, fallback, raised, builderCreated,
                   calls, items, idxWritten, i, total_tokens, error_count, finError,
                   ret, reported, errlog, rvars>>

\* lines 175-178
FinalizeOk ==
    /\ pc = "finalize"
    /\ calls' = FinishCalls(calls)
    /\ idxWritten' = TRUE
    /\ ret' = << FinalizeReturn(total_tokens, error_count, FALSE) >>
    /\ pc' = "report"
    /\ UNCHANGED <<dataset, mainOutcome, tokenizer, fallback, raised, builderCreated,
                   items, i, total_tokens, error_count, finError, reported, errlog, rvars>>

\* lines 175-176, 179-181: end_document raises
EndDocumentFail ==
    /\ pc = "finalize"
    /\ calls' = Append(calls, "end_document")
    /\ finError' = "end_document"
    /\ ret' = << FinalizeReturn(total_tokens, error_count, TRUE) >>
    /\ pc' = "report"
    /\ UNCHANGED <<dataset, mainOutcome, tokenizer, fallback, raised, builderCreated,
                   items, idxWritten, i, total_tokens, error_count, reported, rvars>>
    /\ errlog' = Append(errlog, "finalize")

\* lines 175-177, 179-181: finalize raises
FinalizeFail ==
    /\ pc = "finalize"
    /\ calls' = FinishCalls(calls)
    /\ finError' = "finalize"
    /\ ret' = << FinalizeReturn(total_tokens, error_count, TRUE) >>
    /\ pc' = "report"
    /\ UNCHANGED <<dataset, mainOutcome, tokenizer, fallback, raised, builderCreated,
                   items, idxWritten, i, total_tokens, error_count, reported, rvars>>
    /\ errlog' = Append(errlog, "finalize")

\* lines 224-236
Report ==
    /\ pc = "report"
    /\ reported' = << ProcessedCount(Len(dataset), ret[1][2]) >>
    /\ Return
    /\ UNCHANGED <<dataset, tokenizer, fallback, raised, builderCreated,
                   calls, items, idxWritten, i, total_tokens, error_count, finError,
                   ret, errlog, rvars>>

\* lines 238-240
TopLevelHandler ==
    /\ pc = "handler"
    /\ pc' = "done"
    /\ mainOutcome' = HandlerOutcome
    /\ UNCHANGED <<dataset, tokenizer, fallback, raised, builderCreated,
                   calls, items, idxWritten, i, total_tokens, error_count, finError,
                   ret, reported, rvars>>
    /\ errlog' = Append(errlog, "unexpected")

\* ------------------------------------------------------------ Reader: main
ReaderStep(stage, ok) ==
    /\ pc = "done"
    /\ rpc = stage
    /\ rstages' = Append(rstages, stage)
    /\ rerrors' = IF ok THEN rerrors ELSE Append(rerrors, stage)
    /\ rpc' = ReaderNext(stage, ok)
    /\ routcome' = IF rpc' = "done" THEN "returned" ELSE "running"
    /\ UNCHANGED cvars

\* lines 52-54
OpenOk ==
    /\ idxWritten
    /\ ReaderStep("open", TRUE)
    /\ UNCHANGED <<rindex, sequence, decoded>>

\* lines 55-57: the prefix names no finalized dataset
OpenFail ==
    /\ ReaderStep("open", FALSE)
    /\ UNCHANGED <<rindex, sequence, decoded>>

\* lines 59-63
FetchOk ==
    /\ \E idx \in -1..MaxIndex :
        /\ InRange(Len(items), ReaderLookup(idx))
        /\ rindex' = idx
        /\ sequence' = << items[Position(Len(items), ReaderLookup(idx))] >>
    /\ ReaderStep("fetch", TRUE)
    /\ UNCHANGED decoded

\* lines 64-66
FetchFail ==
    /\ \E idx \in -1..MaxIndex :
        /\ ~InRange(Len(items), ReaderLookup(idx))
        /\ rindex' = idx
    /\ ReaderStep("fetch", FALSE)
    /\ UNCHANGED <<sequence, decoded>>

\* lines 68-71
ReaderTokenizerOk ==
    /\ ReaderStep("tokenizer", TRUE)
    /\ UNCHANGED <<rindex, sequence, decoded>>

\* lines 72-74
ReaderTokenizerFail ==
    /\ ReaderStep("tokenizer", FALSE)
    /\ UNCHANGED <<rindex, sequence, decoded>>

\* lines 76-82
DecodeOk ==
    /\ sequence # <<>>
    /\ decoded' = << Decode(sequence[1]) >>
    /\ ReaderStep("decode", TRUE)
    /\ UNCHANGED <<rindex, sequence>>

\* lines 83-85
DecodeFail ==
    /\ ReaderStep("decode", FALSE)
    /\ UNCHANGED <<rindex, sequence, decoded>>

Next ==
    \/ GetFilePathsOk \/ GetFilePathsFail
    \/ InputMissing \/ LoadDatasetFail \/ TextFieldMissing \/ LoadDatasetOk
    \/ LoadTokenizerOk \/ LoadTokenizerFail
    \/ CreateBuilderOk \/ CreateBuilderFail
    \/ SkipByText \/ SkipByTokens \/ AcceptRecord \/ RecordError
    \/ LoopEnd \/ IterationRaises
    \/ FinalizeOk \/ EndDocumentFail \/ FinalizeFail
    \/ Report \/ TopLevelHandler
    \/ OpenOk \/ OpenFail \/ FetchOk \/ FetchFail
    \/ ReaderTokenizerOk \/ ReaderTokenizerFail \/ DecodeOk \/ DecodeFail

Spec == Init /\ [][Next]_vars

\* ================================================================= claims
\* What the claims call a record's fate, stated from the text alone.
IsBlank(text) == text.kind # "str" \/ Strip(text.chars) = <<>>
FailsTokenization(text) == ~IsBlank(text) /\ TokenizerRaises(text.chars)
TokenizesToNothing(text) ==
    ~IsBlank(text) /\ ~TokenizerRaises(text.chars) /\ Encode(text.chars) = <<>>
Skippable(text) == IsBlank(text) \/ TokenizesToNothing(text)
Accepted(text) == ~Skippable(text) /\ ~FailsTokenization(text)

Visited == SubSeq(dataset, 1, i)

RECURSIVE AcceptedTokens(_)
AcceptedTokens(recs) ==
    IF recs = <<>> THEN <<>>
    ELSE (IF Accepted(Head(recs)) THEN << Encode(Head(recs).chars) >> ELSE <<>>)
         \o AcceptedTokens(Tail(recs))

RECURSIVE FailureCount(_)
FailureCount(recs) ==
    IF recs = <<>> THEN 0
    ELSE (IF FailsTokenization(Head(recs)) THEN 1 ELSE 0) + FailureCount(Tail(recs))

\* process_dataset returned after its record loop completed.
ReturnedAfterLoop == builderCreated /\ ret # <<>>

\* C1: the loop step that visits a record whose text is null, not a string,
\* empty or blank, or tokenizes to zero tokens appends nothing to the builder
\* and leaves total_tokens and error_count unchanged.
C1_SkippedRecordLeavesCountsAlone ==
    [][ (InLoop /\ Skippable(Example) /\ i' = i + 1)
        => /\ items' = items
           /\ calls' = calls
           /\ total_tokens' = total_tokens
           /\ error_count' = error_count ]_vars

\* C1 witness: after an accepted record, a blank record and a record that
\* tokenizes to nothing were visited and only the first was appended.
C1_Witness ==
    /\ pc = "loop" /\ i = 3
    /\ Accepted(dataset[1]) /\ dataset[2] = Str(<<" ">>) /\ dataset[3] = Str(<<"0">>)
    /\ Len(items) = 1 /\ total_tokens = Len(items[1]) /\ error_count = 0

AllFailLong ==
    /\ Len(dataset) > MAX_ERRORS + 1
    /\ \A k \in 1..Len(dataset) : FailsTokenization(dataset[k])

\* C2: error_count never exceeds 101; on an input of more than 101 records
\* that all fail tokenization the loop stops on the 101st error, visits no
\* later record, and process_dataset returns (0, 101) without raising.
C2_StopsOnError101 ==
    /\ error_count <= MAX_ERRORS + 1
    /\ AllFailLong =>
        /\ i <= MAX_ERRORS + 1
        /\ error_count = i
        /\ (pc = "loop" => i <= MAX_ERRORS)
        /\ (ReturnedAfterLoop => ret[1] = <<0, MAX_ERRORS + 1>> /\ i = MAX_ERRORS + 1)
        /\ (error_count > MAX_ERRORS => pc # "handler" /\ mainOutcome # "raised")

\* C2 witness: main returned after process_dataset stopped on the 101st error
\* of an all-failing input.
C2_Witness ==
    /\ AllFailLong /\ pc = "done" /\ mainOutcome = "returned"
    /\ ret = << <<0, MAX_ERRORS + 1>> >> /\ i = MAX_ERRORS + 1 /\ i < Len(dataset)

CallsWellOrdered ==
    /\ \A k \in 1..Len(calls) : calls[k] = "finalize" => k = Len(calls)
    /\ \A k \in 1..Len(calls) :
         calls[k] = "add_item" => \A j \in 1..k : calls[j] = "add_item"
    /\ pc = "loop" => Count(calls, "finalize") = 0

\* C3 as stated: once process_dataset has returned after its record loop
\* (end of input or ceiling stop), finalize was called exactly once, after the
\* last add_item, with no append before, between or after.
C3_FinalizeExactlyOnce ==
    /\ CallsWellOrdered
    /\ ReturnedAfterLoop => Count(calls, "finalize") = 1

\* C3 amended: finalize is called at most once, after the last add_item, and
\* no item is appended after it; once process_dataset has returned after its
\* record loop it was called exactly once unless end_document raised, in
\* which case it was not called.
C3_FinalizeOnceUnlessEndDocumentRaises ==
    /\ CallsWellOrdered
    /\ Count(calls, "finalize") <= 1
    /\ (ReturnedAfterLoop /\ finError # "end_document") => Count(calls, "finalize") = 1
    /\ finError = "end_document" => Count(calls, "finalize") = 0

\* C3 witness: a run stopped by the error ceiling after appending an item, and
\* finalized once.
C3_Witness ==
    /\ ReturnedAfterLoop /\ error_count > MAX_ERRORS /\ Len(items) = 1
    /\ calls = <<"add_item", "end_document", "finalize">>

RoundTripInput ==
    /\ Len(dataset) = 3
    /\ \A k \in 1..3 : Accepted(dataset[k])

\* C4: after a Converter run on three records that are all appended, the
\* Reader's fetch of index k in 0..2 succeeds once the dataset is open and
\* yields the tokens of record k, and decoding them yields the normalized text
\* of record k.
C4_ReaderRoundTrip ==
    (RoundTripInput /\ Len(rstages) >= 2 /\ rindex \in 0..2) =>
        /\ sequence = << Encode(dataset[rindex + 1].chars) >>
        /\ decoded # <<>> => decoded = << Normalize(dataset[rindex + 1].chars) >>

\* C4 witness: index 1 of a three-record input with different texts was
\* fetched and decoded, and the decoded text differs from the original by
\* normalization only.
C4_Witness ==
    /\ dataset = << Str(<<"a">>), Str(<<"a", "0">>), Str(<<" ", "a">>) >>
    /\ rindex = 1 /\ sequence = << <<11>> >> /\ decoded = << <<"a">> >>
    /\ routcome = "returned"

StageOrder == <<"open", "fetch", "tokenizer", "decode">>

\* C5: the Reader attempts its stages in the order open, fetch, tokenizer
\* load, decode; a failed stage is logged, is the last stage attempted and ends
\* the run by returning; an out-of-range index fails the fetch, so that no
\* tokenizer is loaded and nothing is decoded.
C5_ReaderStagesGuarded ==
    /\ Len(rstages) <= Len(StageOrder)
    /\ \A k \in 1..Len(rstages) : rstages[k] = StageOrder[k]
    /\ Len(rerrors) <= 1
    /\ rerrors # <<>> =>
        /\ rerrors[1] = rstages[Len(rstages)]
        /\ rpc = "done" /\ routcome = "returned"
    /\ (Len(rstages) >= 2 /\ ~InRange(Len(items), rindex)) =>
        /\ rerrors = <<"fetch">> /\ Len(rstages) = 2
        /\ sequence = <<>> /\ decoded = <<>>
        /\ rpc = "done" /\ routcome = "returned"
    /\ routcome = "returned" <=> rpc = "done"

\* C5 witness: index 5 was requested of a three-sequence dataset.
C5_Witness ==
    /\ Len(items) = 3 /\ rindex = 5 /\ rstages = <<"open", "fetch">>
    /\ rerrors = <<"fetch">> /\ routcome = "returned"

\* C6: when tokenizer construction fails, the fallback has run, the original
\* error was raised whatever the fallback's outcome, and main has returned
\* with no builder created, no record visited, nothing appended or finalized.
C6_TokenizerFailureAborts ==
    tokenizer = "failed" =>
        /\ fallback # "none" /\ raised = "original"
        /\ errlog = <<"load_tokenizer">>
        /\ pc = "done" /\ mainOutcome = "returned"
        /\ ~builderCreated /\ calls = <<>> /\ items = <<>> /\ ~idxWritten
        /\ i = 0 /\ ret = <<>> /\ reported = <<>>

\* C6 witness: the fallback itself failed on a non-empty input.
C6_Witness ==
    /\ tokenizer = "failed" /\ fallback = "failed" /\ raised = "original"
    /\ Len(dataset) = 3 /\ pc = "done"

\* C7: when end_document or finalize raises, the failure is logged and
\* process_dataset returns the counts of the loop: the tokens appended and the
\* errors counted on the visited records.
C7_FinalizeFailureReturnsCounts ==
    finError # "none" =>
        /\ ret = << <<total_tokens, error_count>> >>
        /\ total_tokens = SumLen(items)
        /\ error_count = FailureCount(Visited)
        /\ errlog = <<"finalize">>
        /\ pc \in {"report", "done"} /\ mainOutcome # "raised"

\* C7 witness: finalization failed after tokens and errors were counted.
C7_Witness ==
    /\ finError = "end_document" /\ ret = << <<2, 1>> >>
    /\ mainOutcome = "returned"

C9_ReportedCountIsAppended ==
    (reported # <<>> /\ idxWritten) => reported[1] = Len(items)

\* C10: no exception leaves main: an error that reaches the top-level handler
\* is logged and main returns.
C10_MainNeverRaises ==
    pc = "done" => mainOutcome = "returned"

====
